---- MODULE Spec2Model ----
(***************************************************************************)
(* State-machine model of the useEnvWallet hook                            *)
(* (src/src/hooks/useEnvWallet.ts): the EnvWalletState record kept by      *)
(* useState, and the asynchronous operations that commit to it through     *)
(* functional setWalletState updates: initializeProvider (initialize /     *)
(* reinitialize), updateUserPrivateKey (setUserCredential),                *)
(* refreshBalances (refresh) and fetchMultiNetworkBalances (fetchAll).     *)
(*                                                                         *)
(* Conventions.  Promises in flight that hold the same data behave alike,  *)
(* so each kind is kept as a bag.  A nullable field is a set with at most one element:       *)
(* {} is null/undefined, {v} is the value v.  A string the code inspects   *)
(* character by character is named in the state and spelled out by Text,   *)
(* a sequence of one-character strings.  Every step is one JavaScript      *)
(* task: a call runs up to its first suspension, and a settled promise     *)
(* runs its continuation.                                                  *)
(***************************************************************************)
EXTENDS Integers, Sequences, FiniteSets, Bags, TLC

VARIABLES
    env,          \* index of the import.meta.env contents (fixed per build)
    mounted,      \* the startup effect has run
    walletState,  \* the EnvWalletState held by useState
    inits,        \* initializeProvider calls suspended at an await
    timers,       \* keys of the pending setTimeout retries, oldest first
    userQueries,  \* bag of getBalance promises of updateUserPrivateKey
    refreshes,    \* bag of Promise.all batches of refreshBalances
    fetches,      \* bag of fetchMultiNetworkBalances cycles in flight
    calls,        \* calls made by the caller so far, and providers created
    last          \* what the latest step did (observation only)

vars == <<env, mounted, walletState, inits, timers, userQueries, refreshes,
          fetches, calls, last>>

----------------------------------------------------------------------------
(* Bounds of the model. *)

MaxCalls == 3        \* calls the caller makes after the startup effect
MaxFetchCalls == 2   \* the same, where only fetchMultiNetworkBalances is called
MaxRetryCalls == 3   \* the same, where only the credential and the connection change

----------------------------------------------------------------------------
(* Strings and JavaScript values. *)

Null == {}
Some(v) == {v}
Val(o) == CHOOSE v \in o : TRUE

Rep(c, n) == [i \in 1..n |-> c]

Whitespace == {" ", "\t", "\n"}
HexChars == {"0", "1", "2", "3", "4", "5", "6", "7", "8", "9",
             "a", "b", "c", "d", "e", "f", "A", "B", "C", "D", "E", "F"}

KeyHexLen == 64

\* String.prototype.trim
RECURSIVE TrimLeft(_)
TrimLeft(s) ==
    IF s # <<>> /\ Head(s) \in Whitespace THEN TrimLeft(Tail(s)) ELSE s

RECURSIVE TrimRight(_)
TrimRight(s) ==
    IF s # <<>> /\ s[Len(s)] \in Whitespace
    THEN TrimRight(SubSeq(s, 1, Len(s) - 1))
    ELSE s

Trim(s) == TrimRight(TrimLeft(s))

\* s.startsWith('0x')
StartsWith0x(s) == Len(s) >= 2 /\ s[1] = "0" /\ s[2] = "x"

\* s.startsWith('0x') ? s.slice(2) : s
CleanKey(s) == IF StartsWith0x(s) THEN SubSeq(s, 3, Len(s)) ELSE s

IsHex64Unanchored(s) ==
    Len(s) >= KeyHexLen /\ \A i \in 1..KeyHexLen : s[i] \in HexChars

\* /^[0-9a-fA-F]{64}$/.test(s)
IsHex64(s) == Len(s) = KeyHexLen /\ \A i \in 1..Len(s) : s[i] \in HexChars

\* ethers.formatEther, on a raw balance counted in whole ether
FormatEther(raw) == ToString(raw) \o ".0"

\* the raw balances an RPC node answers with
Balances == {0, 1}

----------------------------------------------------------------------------
(* The strings of the model: each is named, and Text spells it out. *)

Str0x == <<"0", "x">>
StrDots == <<"0", "x", ".", ".", ".">>

KeyEmpty == "empty"       \* ''
KeyBlank == "blank"       \* two spaces
KeyDots == "dots"         \* the placeholder '0x...'
Key0x == "0x"             \* the placeholder '0x'
KeyA == "A"               \* valid, 0x-prefixed
KeyB == "B"               \* valid, unprefixed, upper case
KeyR == "R"               \* valid, 0x-prefixed
KeyShort == "short"       \* one digit short
KeyLong == "long"         \* one digit too many
KeyNonHex == "nonhex"     \* 64 characters, not hexadecimal
KeyUpperX == "upperX"     \* '0X' is no prefix
KeyNewline == "newline"   \* a valid key and a line feed
RpcUrl == "url"

Strings == {KeyEmpty, KeyBlank, KeyDots, Key0x, KeyA, KeyB, KeyR, KeyShort,
            KeyLong, KeyNonHex, KeyUpperX, KeyNewline, RpcUrl}

Spell(s) ==
    CASE s = KeyEmpty -> <<>>
      [] s = KeyBlank -> <<" ", " ">>
      [] s = KeyDots -> StrDots
      [] s = Key0x -> Str0x
      [] s = KeyA -> Str0x \o Rep("a", KeyHexLen)
      [] s = KeyB -> Rep("B", KeyHexLen)
      [] s = KeyR -> Str0x \o Rep("1", KeyHexLen)
      [] s = KeyShort -> Str0x \o Rep("a", KeyHexLen - 1)
      [] s = KeyLong -> Rep("a", KeyHexLen + 1)
      [] s = KeyNonHex -> Rep("g", KeyHexLen)
      [] s = KeyUpperX -> <<"0", "X">> \o Rep("a", KeyHexLen)
      [] s = KeyNewline -> Str0x \o Rep("a", KeyHexLen) \o <<"\n">>
      [] s = RpcUrl -> <<"h", "t", "t", "p">>

Text == [s \in Strings |-> Spell(s)]

\* JavaScript truthiness of an optional string: undefined and '' are falsy
Truthy(o) == o # Null /\ Text[Val(o)] # <<>>

\* a || b
OrElse(a, b) == IF Truthy(a) THEN a ELSE b

----------------------------------------------------------------------------
(* import.meta.env: the build-time configuration.  Envs lists the          *)
(* configurations the model is run with; the variable env is an index      *)
(* into it and never changes.                                              *)

NetworkNames ==
    <<"BSC", "Ethereum", "Sepolia", "Arbitrum", "Base", "Polygon", "Optimism">>

OtherNames == {NetworkNames[i] : i \in 2..Len(NetworkNames)}

AllOthers(k) == [n \in OtherNames |-> k]

Envs == <<
    \* 1: primary configured, every other network left at the placeholder
    [VITE_RELAYER_PRIVATE_KEY |-> Some(KeyR), VITE_RPC_URL |-> Some(RpcUrl),
     NETWORK_KEYS |-> AllOthers(Some(KeyDots))],
    \* 2: nothing configured
    [VITE_RELAYER_PRIVATE_KEY |-> Null, VITE_RPC_URL |-> Some(RpcUrl),
     NETWORK_KEYS |-> AllOthers(Null)],
    \* 3: the relayer key left at the placeholder
    [VITE_RELAYER_PRIVATE_KEY |-> Some(KeyDots), VITE_RPC_URL |-> Some(RpcUrl),
     NETWORK_KEYS |-> AllOthers(Null)],
    \* 4: no RPC URL
    [VITE_RELAYER_PRIVATE_KEY |-> Some(KeyR), VITE_RPC_URL |-> Null,
     NETWORK_KEYS |-> AllOthers(Some(Key0x))],
    \* 5: primary configured, no other network configured
    [VITE_RELAYER_PRIVATE_KEY |-> Some(KeyR), VITE_RPC_URL |-> Some(RpcUrl),
     NETWORK_KEYS |-> AllOthers(Null)],
    \* 6: one kind of unusable credential per network
    [VITE_RELAYER_PRIVATE_KEY |-> Some(KeyR), VITE_RPC_URL |-> Some(RpcUrl),
     NETWORK_KEYS |->
        [Ethereum |-> Some(KeyBlank), Sepolia |-> Some(Key0x),
         Arbitrum |-> Some(KeyShort), Base |-> Some(KeyLong),
         Polygon |-> Some(KeyNonHex), Optimism |-> Some(KeyB)]],
    \* 7: no primary key, so nothing to fall back to
    [VITE_RELAYER_PRIVATE_KEY |-> Null, VITE_RPC_URL |-> Null,
     NETWORK_KEYS |->
        [Ethereum |-> Some(KeyA), Sepolia |-> Some(KeyDots),
         Arbitrum |-> Some(KeyB), Base |-> Some(KeyEmpty),
         Polygon |-> Some(KeyUpperX), Optimism |-> Some(KeyNewline)]]
>>

MainEnvs == {1, 2, 3, 4}
StartupEnvs == {5}
FetchEnvs == {6, 7}

Currency(name) ==
    CASE name = "BSC" -> "BNB"
      [] name = "Polygon" -> "MATIC"
      [] OTHER -> "ETH"

RelayerKeyOfNoFallback(e, name) ==
    IF name = "BSC"
    THEN Envs[e].VITE_RELAYER_PRIVATE_KEY
    ELSE Envs[e].NETWORK_KEYS[name]

\* The relayerKey of one NETWORKS entry: BSC uses the primary key, every
\* other network its own key, falling back to the primary key.
RelayerKeyOf(e, name) ==
    IF name = "BSC"
    THEN Envs[e].VITE_RELAYER_PRIVATE_KEY
    ELSE OrElse(Envs[e].NETWORK_KEYS[name], Envs[e].VITE_RELAYER_PRIVATE_KEY)

NETWORKS(e) ==
    [i \in 1..Len(NetworkNames) |->
        [name |-> NetworkNames[i],
         currency |-> Currency(NetworkNames[i]),
         relayerKey |-> RelayerKeyOf(e, NetworkNames[i])]]

\* The two early returns of the per-network async function: TRUE when the
\* network is skipped without a query.
SkipsNetwork(relayerKey) ==
    \/ ~Truthy(relayerKey)
    \/ Trim(Text[Val(relayerKey)]) = <<>>
    \/ Text[Val(relayerKey)] = StrDots
    \/ Text[Val(relayerKey)] = Str0x
    \/ ~IsHex64(CleanKey(Text[Val(relayerKey)]))

\* new ethers.Wallet(key, provider) throws unless key is a 32-byte hex string
WalletThrows(key) == ~IsHex64(CleanKey(Text[key]))

\* wallet.address: determined by the key
AddressOf(key) == <<"address of", key>>

----------------------------------------------------------------------------
(* The state held by useState, and the values the RPC node answers with. *)

InitialWalletState ==
    [userWallet |-> Null, relayerWallet |-> Null, provider |-> Null,
     isConfigured |-> FALSE, userAddress |-> Null, relayerAddress |-> Null,
     userBalance |-> Null, relayerBalance |-> Null,
     multiNetworkBalances |-> Null, chainId |-> Null, error |-> Null,
     currentUserPrivateKey |-> Null]

ChainIds == {56}

\* the keys a caller passes to updateUserPrivateKey
UserKeys == {KeyEmpty, KeyBlank, KeyA, KeyShort}

NewWallet(key, provider) ==
    [key |-> key, provider |-> provider, address |-> AddressOf(key)]

\* The observation kept of a step: a refreshBalances call, a retry, and the
\* commits of a refresh batch and of a fetch cycle (with the results they
\* carried) are told apart.
Observed == {"refresh", "refreshCommit", "retry", "fetchCommit"}
Report(op, results) ==
    [op |-> IF op \in Observed THEN op ELSE "other", results |-> results]
Did(op) == Report(op, <<>>)

One(x) == SetToBag({x})
BagOf(S) == SetToBag(S)

----------------------------------------------------------------------------
(* fetchMultiNetworkBalances *)

\* the networks of the catalog that get past both early returns
Queried(e) ==
    {NETWORKS(e)[i].name : i \in
        {j \in 1..Len(NetworkNames) : ~SkipsNetwork(NETWORKS(e)[j].relayerKey)}}

QueriedByEnv == [e \in DOMAIN Envs |-> Queried(e)]

QueriedNetworks(e) == QueriedByEnv[e]

SuccessEntry(name, raw) ==
    [balance |-> FormatEther(raw), currency |-> Currency(name)]

FallbackEntry(name) == [balance |-> "0.0000", currency |-> Currency(name)]

CommitBalancesWithoutPrev(ws, balances) ==
    [InitialWalletState EXCEPT !.multiNetworkBalances = Some(balances)]

CommitBalancesKeepsOld(ws, balances) ==
    [ws EXCEPT !.multiNetworkBalances =
        IF @ = Null THEN Some(balances) ELSE Some(Val(@) @@ balances)]

\* setWalletState(prev => ({...prev, multiNetworkBalances: balances}))
CommitBalances(ws, balances) ==
    [ws EXCEPT !.multiNetworkBalances = Some(balances)]

\* A call: every promise of a skipped network is already settled, so with
\* nothing queried Promise.all resolves and the commit follows at once.
FetchCallState(ws, e) ==
    IF QueriedNetworks(e) = {} THEN CommitBalances(ws, <<>>) ELSE ws

FetchCallCycles(e) ==
    IF QueriedNetworks(e) = {}
    THEN {}
    ELSE {[pending |-> QueriedNetworks(e), hung |-> {},
           balances |-> <<>>, answers |-> <<>>]}

SettleCycleFailureResets(c, name, entry, answer) ==
    [c EXCEPT !.pending = @ \ {name},
              !.balances = IF answer.ok THEN (name :> entry) @@ @
                           ELSE (name :> entry),
              !.answers = (name :> answer) @@ @]

\* one per-network promise settles, with the entry it writes into balances
SettleCycle(c, name, entry, answer) ==
    [c EXCEPT !.pending = @ \ {name},
              !.balances = (name :> entry) @@ @,
              !.answers = (name :> answer) @@ @]

\* await Promise.all(promises) is over once nothing is pending
CycleDone(c) == c.pending = {} /\ c.hung = {}

FetchSettle(c, name, entry, answer) ==
    LET d == SettleCycle(c, name, entry, answer) IN
    /\ name \in c.pending
    /\ IF CycleDone(d)
       THEN /\ fetches' = fetches (-) One(c)
            /\ walletState' = CommitBalances(walletState, d.balances)
            /\ last' = Report("fetchCommit", d.answers)
       ELSE /\ fetches' = (fetches (-) One(c)) (+) One(d)
            /\ walletState' = walletState
            /\ last' = Did("fetchSettle")
    /\ UNCHANGED <<env, mounted, inits, timers, userQueries, refreshes, calls>>

FetchResolve(c, name, raw) ==
    FetchSettle(c, name, SuccessEntry(name, raw), [ok |-> TRUE, raw |-> raw])

FetchReject(c, name) ==
    FetchSettle(c, name, FallbackEntry(name), [ok |-> FALSE, raw |-> 0])

\* a query that never settles
FetchHang(c, name) ==
    /\ name \in c.pending
    /\ fetches' = (fetches (-) One(c)) (+)
                    One([c EXCEPT !.pending = @ \ {name}, !.hung = @ \cup {name}])
    /\ last' = Did("fetchHang")
    /\ UNCHANGED <<env, mounted, walletState, inits, timers, userQueries,
                   refreshes, calls>>

fetchMultiNetworkBalances ==
    /\ mounted
    /\ calls.made < MaxCalls
    /\ calls' = [calls EXCEPT !.made = @ + 1]
    /\ walletState' = FetchCallState(walletState, env)
    /\ fetches' = fetches (+) BagOf(FetchCallCycles(env))
    /\ last' = Did("fetch")
    /\ UNCHANGED <<env, mounted, inits, timers, userQueries, refreshes>>

----------------------------------------------------------------------------
(* initializeProvider (initialize / reinitialize) *)

ConfigError ==
    Some("Please configure VITE_RELAYER_PRIVATE_KEY and VITE_RPC_URL in .env file")

CommitErrorWithoutPrev(ws, message) ==
    [InitialWalletState EXCEPT !.error = message]

\* setWalletState(prev => ({...prev, error: ...})), in the guard and the catch
CommitError(ws, message) == [ws EXCEPT !.error = message]

ConfigMissing(e) ==
    \/ ~Truthy(Envs[e].VITE_RELAYER_PRIVATE_KEY)
    \/ ~Truthy(Envs[e].VITE_RPC_URL)

\* The call up to its first await: the configuration guard, the provider
\* and the relayer wallet.
InitCallState(ws, e) ==
    IF ConfigMissing(e)
    THEN CommitError(ws, ConfigError)
    ELSE IF WalletThrows(Val(Envs[e].VITE_RELAYER_PRIVATE_KEY))
         THEN CommitError(ws, Some("invalid private key"))
         ELSE ws

InitCallTasks(id, e) ==
    IF ConfigMissing(e) \/ WalletThrows(Val(Envs[e].VITE_RELAYER_PRIVATE_KEY))
    THEN {}
    ELSE {[id |-> id, pc |-> "getNetwork", provider |-> [id |-> id],
           relayerWallet |->
               NewWallet(Val(Envs[e].VITE_RELAYER_PRIVATE_KEY), [id |-> id]),
           chainId |-> Null]}

\* the commit of a successful initialize
CommitInitialized(ws, t, raw) ==
    [ws EXCEPT !.relayerWallet = Some(t.relayerWallet),
               !.provider = Some(t.provider),
               !.relayerAddress = Some(t.relayerWallet.address),
               !.relayerBalance = Some(FormatEther(raw)),
               !.chainId = t.chainId,
               !.error = Null]

initializeProvider ==
    /\ mounted
    /\ calls.made < MaxCalls
    /\ calls' = [calls EXCEPT !.made = @ + 1, !.providers = @ + 1]
    /\ walletState' = InitCallState(walletState, env)
    /\ inits' = inits \cup InitCallTasks(calls.providers + 1, env)
    /\ last' = Did("init")
    /\ UNCHANGED <<env, mounted, timers, userQueries, refreshes, fetches>>

\* await provider.getNetwork() resolves
InitNetworkResolve(t, cid) ==
    /\ t.pc = "getNetwork"
    /\ inits' = (inits \ {t}) \cup
                  {[t EXCEPT !.pc = "getBalance", !.chainId = Some(cid)]}
    /\ last' = Did("initNetwork")
    /\ UNCHANGED <<env, mounted, walletState, timers, userQueries, refreshes,
                   fetches, calls>>

\* await provider.getBalance(relayerWallet.address) resolves
InitBalanceResolve(t, raw) ==
    /\ t.pc = "getBalance"
    /\ inits' = inits \ {t}
    /\ walletState' = CommitInitialized(walletState, t, raw)
    /\ last' = Did("initCommit")
    /\ UNCHANGED <<env, mounted, timers, userQueries, refreshes, fetches, calls>>

\* either await rejects: the catch block
InitReject(t) ==
    /\ inits' = inits \ {t}
    /\ walletState' = CommitError(walletState, Some("rpc error"))
    /\ last' = Did("initFail")
    /\ UNCHANGED <<env, mounted, timers, userQueries, refreshes, fetches, calls>>

----------------------------------------------------------------------------
(* The startup effect: initializeProvider(); fetchMultiNetworkBalances() *)

Mount ==
    /\ ~mounted
    /\ mounted' = TRUE
    /\ calls' = [calls EXCEPT !.providers = @ + 1]
    /\ walletState' = FetchCallState(InitCallState(walletState, env), env)
    /\ inits' = inits \cup InitCallTasks(calls.providers + 1, env)
    /\ fetches' = fetches (+) BagOf(FetchCallCycles(env))
    /\ last' = Did("mount")
    /\ UNCHANGED <<env, timers, userQueries, refreshes>>

----------------------------------------------------------------------------
(* updateUserPrivateKey (setUserCredential) *)

\* !newPrivateKey || newPrivateKey.trim() === ''
IsBlankKey(key) == Text[key] = <<>> \/ Trim(Text[key]) = <<>>

ClearUserResetsAll(ws) ==
    [InitialWalletState EXCEPT !.currentUserPrivateKey = Some(KeyEmpty)]

ClearUserKeepsConfigured(ws) ==
    [ws EXCEPT !.currentUserPrivateKey = Some(KeyEmpty),
               !.userWallet = Null,
               !.userAddress = Null,
               !.userBalance = Null]

\* the clearing commit
ClearUser(ws) ==
    [ws EXCEPT !.currentUserPrivateKey = Some(KeyEmpty),
               !.userWallet = Null,
               !.userAddress = Null,
               !.userBalance = Null,
               !.isConfigured = FALSE]

\* newState of the functional update, provider present and wallet derived
CommitUser(ws, key) ==
    [ws EXCEPT !.currentUserPrivateKey = Some(key),
               !.userWallet = Some(NewWallet(key, Val(ws.provider))),
               !.userAddress = Some(AddressOf(key)),
               !.isConfigured =
                   (ws.relayerWallet # Null /\ ws.provider # Null /\ Text[key] # <<>>),
               !.error = Null]

\* the commit of the catch block
CommitUserFailed(ws, key) ==
    [ws EXCEPT !.currentUserPrivateKey = Some(key),
               !.userWallet = Null,
               !.userAddress = Null,
               !.userBalance = Null,
               !.error = Some("invalid private key")]

UpdateStateNeedsProvider(ws, key) ==
    IF ws.provider = Null THEN ws
    ELSE IF IsBlankKey(key) THEN ClearUser(ws)
    ELSE IF WalletThrows(key) THEN CommitUserFailed(ws, key)
    ELSE CommitUser(ws, key)

\* what one run of updateUserPrivateKey(key) makes of the wallet state
UpdateState(ws, key) ==
    IF IsBlankKey(key) THEN ClearUser(ws)
    ELSE IF ws.provider = Null THEN ws
    ELSE IF WalletThrows(key) THEN CommitUserFailed(ws, key)
    ELSE CommitUser(ws, key)

\* new ethers.Wallet(newPrivateKey, prev.provider) throws, inside the updater
DerivationThrows(ws, key) ==
    ~IsBlankKey(key) /\ ws.provider # Null /\ WalletThrows(key)

\* The states one run of updateUserPrivateKey(key) can commit.  The wallet
\* is derived inside the updater function handed to setWalletState, and the
\* try block encloses only the call of setWalletState: when React runs the
\* updater within that call the catch block commits; when React runs it
\* while it processes its update queue the exception is raised there, the
\* catch block is not reached and the update is dropped.
UpdateStates(ws, key) ==
    IF DerivationThrows(ws, key)
    THEN {UpdateState(ws, key), ws}
    ELSE {UpdateState(ws, key)}

UpdateTimersTwice(ws, key, pendingTimers) ==
    IF ~IsBlankKey(key) /\ ws.provider = Null
    THEN Append(Append(pendingTimers, key), key)
    ELSE pendingTimers

UpdateTimersGivesUp(ws, key, pendingTimers) ==
    IF ~IsBlankKey(key) /\ ws.provider = Null /\ pendingTimers = timers
    THEN Append(pendingTimers, key)
    ELSE pendingTimers

\* setTimeout(() => updateUserPrivateKey(newPrivateKey), 100)
UpdateTimers(ws, key, pendingTimers) ==
    IF ~IsBlankKey(key) /\ ws.provider = Null
    THEN Append(pendingTimers, key)
    ELSE pendingTimers

\* prev.provider.getBalance(userWallet.address)
UpdateQueries(ws, key) ==
    IF ~IsBlankKey(key) /\ ws.provider # Null /\ ~WalletThrows(key)
    THEN {[address |-> AddressOf(key), provider |-> Val(ws.provider)]}
    ELSE {}

UpdateOutcome(ws, key) ==
    IF IsBlankKey(key) THEN "clear"
    ELSE IF ws.provider = Null THEN "defer"
    ELSE IF WalletThrows(key) THEN "setFail"
    ELSE "set"

\* a call by the caller
updateUserPrivateKey(newPrivateKey) ==
    /\ mounted
    /\ calls.made < MaxCalls
    /\ calls' = [calls EXCEPT !.made = @ + 1]
    /\ walletState' \in UpdateStates(walletState, newPrivateKey)
    /\ timers' = UpdateTimers(walletState, newPrivateKey, timers)
    /\ userQueries' = userQueries (+) BagOf(UpdateQueries(walletState, newPrivateKey))
    /\ last' = Did(UpdateOutcome(walletState, newPrivateKey))
    /\ UNCHANGED <<env, mounted, inits, refreshes, fetches>>

\* the oldest retry timer fires and calls updateUserPrivateKey again
RetryFires ==
    /\ timers # <<>>
    /\ LET key == Head(timers) IN
        /\ walletState' \in UpdateStates(walletState, key)
        /\ timers' = UpdateTimers(walletState, key, Tail(timers))
        /\ userQueries' = userQueries (+) BagOf(UpdateQueries(walletState, key))
        /\ last' = Did("retry")
    /\ UNCHANGED <<env, mounted, inits, refreshes, fetches, calls>>

\* .then(balance => setWalletState(current => ({...current, userBalance})))
CommitUserBalance(ws, raw) == [ws EXCEPT !.userBalance = Some(FormatEther(raw))]

UserBalanceResolve(q, raw) ==
    /\ userQueries' = userQueries (-) One(q)
    /\ walletState' = CommitUserBalance(walletState, raw)
    /\ last' = Did("userBalance")
    /\ UNCHANGED <<env, mounted, inits, timers, refreshes, fetches, calls>>

\* .catch(error => console.error(...))
UserBalanceReject(q) ==
    /\ userQueries' = userQueries (-) One(q)
    /\ last' = Did("userBalanceFail")
    /\ UNCHANGED <<env, mounted, walletState, inits, timers, refreshes, fetches,
                   calls>>

----------------------------------------------------------------------------
(* refreshBalances (refresh) *)

\* the promises pushed: one per wallet present in prev
RefreshRoles(ws) ==
    {r \in {"user", "relayer"} :
        \/ r = "user" /\ ws.userWallet # Null
        \/ r = "relayer" /\ ws.relayerWallet # Null}

RefreshAddress(ws, role) ==
    IF role = "user" THEN Val(ws.userWallet).address
    ELSE Val(ws.relayerWallet).address

\* the functional update returns prev; with a provider it starts a batch
RefreshBatches(ws) ==
    IF ws.provider = Null \/ RefreshRoles(ws) = {}
    THEN {}
    ELSE {[pending |-> RefreshRoles(ws), results |-> <<>>,
           address |-> [r \in RefreshRoles(ws) |-> RefreshAddress(ws, r)]]}

CommitRefreshBothFields(ws, results) ==
    [ws EXCEPT
        !.userBalance =
            IF "user" \in DOMAIN results
            THEN Some(FormatEther(results["user"])) ELSE Null,
        !.relayerBalance =
            IF "relayer" \in DOMAIN results
            THEN Some(FormatEther(results["relayer"])) ELSE Null]

\* setWalletState(current => ({...current, ...updates}))
CommitRefresh(ws, results) ==
    [ws EXCEPT
        !.userBalance =
            IF "user" \in DOMAIN results
            THEN Some(FormatEther(results["user"])) ELSE @,
        !.relayerBalance =
            IF "relayer" \in DOMAIN results
            THEN Some(FormatEther(results["relayer"])) ELSE @]

refreshBalances ==
    /\ mounted
    /\ calls.made < MaxCalls
    /\ calls' = [calls EXCEPT !.made = @ + 1]
    /\ refreshes' = refreshes (+) BagOf(RefreshBatches(walletState))
    /\ walletState' = FetchCallState(walletState, env)
    /\ fetches' = fetches (+) BagOf(FetchCallCycles(env))
    /\ last' = Did("refresh")
    /\ UNCHANGED <<env, mounted, inits, timers, userQueries>>

\* one getBalance of a batch resolves; Promise.all resolves with the last
RefreshResolve(b, role, raw) ==
    LET results == (role :> raw) @@ b.results IN
    /\ role \in b.pending
    /\ IF b.pending = {role}
       THEN /\ refreshes' = refreshes (-) One(b)
            /\ walletState' = CommitRefresh(walletState, results)
            /\ last' = Report("refreshCommit", results)
       ELSE /\ refreshes' = (refreshes (-) One(b)) (+)
                    One([b EXCEPT !.pending = @ \ {role}, !.results = results])
            /\ walletState' = walletState
            /\ last' = Did("refreshSettle")
    /\ UNCHANGED <<env, mounted, inits, timers, userQueries, fetches, calls>>

\* one getBalance of a batch rejects: Promise.all rejects, the catch logs
RefreshReject(b, role) ==
    /\ role \in b.pending
    /\ refreshes' = refreshes (-) One(b)
    /\ last' = Did("refreshFail")
    /\ UNCHANGED <<env, mounted, walletState, inits, timers, userQueries,
                   fetches, calls>>

----------------------------------------------------------------------------
(* The hook as a whole. *)

InitIn(envs) ==
    /\ env \in envs
    /\ mounted = FALSE
    /\ walletState = InitialWalletState
    /\ inits = {}
    /\ timers = <<>>
    /\ userQueries = EmptyBag
    /\ refreshes = EmptyBag
    /\ fetches = EmptyBag
    /\ calls = [made |-> 0, providers |-> 0]
    /\ last = Did("new")

Init == InitIn(MainEnvs)

Next ==
    \/ Mount
    \/ initializeProvider
    \/ \E t \in inits : \E cid \in ChainIds : InitNetworkResolve(t, cid)
    \/ \E t \in inits : \E raw \in Balances : InitBalanceResolve(t, raw)
    \/ \E t \in inits : InitReject(t)
    \/ \E key \in UserKeys : updateUserPrivateKey(key)
    \/ RetryFires
    \/ \E q \in BagToSet(userQueries) : \E raw \in Balances : UserBalanceResolve(q, raw)
    \/ \E q \in BagToSet(userQueries) : UserBalanceReject(q)
    \/ refreshBalances
    \/ \E b \in BagToSet(refreshes) : \E role \in b.pending : \E raw \in Balances :
          RefreshResolve(b, role, raw)
    \/ \E b \in BagToSet(refreshes) : \E role \in b.pending : RefreshReject(b, role)
    \/ fetchMultiNetworkBalances
    \/ \E c \in BagToSet(fetches) : \E name \in c.pending : \E raw \in Balances :
          FetchResolve(c, name, raw)
    \/ \E c \in BagToSet(fetches) : \E name \in c.pending : FetchReject(c, name)

Spec == Init /\ [][Next]_vars

\* The credential and the connection alone: initialize, reinitialize,
\* updateUserPrivateKey and its retries.  A timer that is due fires: the
\* event loop runs every expired setTimeout.
RetryNext ==
    \/ Mount
    \/ calls.made < MaxRetryCalls /\ initializeProvider
    \/ \E t \in inits : \E cid \in ChainIds : InitNetworkResolve(t, cid)
    \/ \E t \in inits : \E raw \in Balances : InitBalanceResolve(t, raw)
    \/ \E t \in inits : InitReject(t)
    \/ \E key \in UserKeys :
          calls.made < MaxRetryCalls /\ updateUserPrivateKey(key)
    \/ RetryFires
    \/ \E q \in BagToSet(userQueries) : \E raw \in Balances : UserBalanceResolve(q, raw)
    \/ \E q \in BagToSet(userQueries) : UserBalanceReject(q)

RetrySpec == Init /\ [][RetryNext]_vars /\ WF_vars(RetryFires)

\* The startup of the hook alone, with the primary network configured and
\* no other: the effect, and the settlement of what it started.
StartupInit == InitIn(StartupEnvs)

StartupNext ==
    \/ Mount
    \/ \E t \in inits : \E cid \in ChainIds : InitNetworkResolve(t, cid)
    \/ \E t \in inits : \E raw \in Balances : InitBalanceResolve(t, raw)
    \/ \E t \in inits : InitReject(t)
    \/ \E c \in BagToSet(fetches) : \E name \in c.pending : \E raw \in Balances :
          FetchResolve(c, name, raw)
    \/ \E c \in BagToSet(fetches) : \E name \in c.pending : FetchReject(c, name)

StartupSpec == StartupInit /\ [][StartupNext]_vars

\* fetchMultiNetworkBalances alone, over catalogs with usable and unusable
\* credentials, with queries that resolve, reject or never settle.
FetchInit == InitIn(FetchEnvs)

FetchSettles ==
    \/ \E c \in BagToSet(fetches) : \E name \in c.pending : \E raw \in Balances :
          FetchResolve(c, name, raw)
    \/ \E c \in BagToSet(fetches) : \E name \in c.pending : FetchReject(c, name)

FetchNext ==
    \/ Mount
    \/ calls.made < MaxFetchCalls /\ fetchMultiNetworkBalances
    \/ FetchSettles
    \/ \E c \in BagToSet(fetches) : \E name \in c.pending : FetchHang(c, name)

FetchSpec == FetchInit /\ [][FetchNext]_vars

\* Every query that does not hang settles.
FairFetchSpec == FetchSpec /\ WF_vars(FetchSettles)

\* A caller that sets one key, clears it and sets another, whenever it
\* likes, while the startup initialization, the retries and the balance
\* queries run: the argument of the latest call is the entry of the script
\* at calls.made.
CallerScript == <<KeyA, KeyEmpty, KeyB>>

CallerNext ==
    \/ Mount
    \/ \E t \in inits : \E cid \in ChainIds : InitNetworkResolve(t, cid)
    \/ \E t \in inits : \E raw \in Balances : InitBalanceResolve(t, raw)
    \/ \E t \in inits : InitReject(t)
    \/ /\ calls.made < Len(CallerScript)
       /\ updateUserPrivateKey(CallerScript[calls.made + 1])
    \/ RetryFires
    \/ \E q \in BagToSet(userQueries) : \E raw \in Balances : UserBalanceResolve(q, raw)
    \/ \E q \in BagToSet(userQueries) : UserBalanceReject(q)

CallerSpec == Init /\ [][CallerNext]_vars

\* The user account replaced by another one, against an RPC node on which
\* every address holds its own amount, so that a balance tells the address
\* it was queried for.
LedgerEnvs == {1}
LedgerKeys == {KeyA, KeyB}

\* provider.getBalance(address), as this node answers it
LedgerBalance(address) == IF address = AddressOf(KeyA) THEN 0 ELSE 1

LedgerInit == InitIn(LedgerEnvs)

LedgerNext ==
    \/ Mount
    \/ \E t \in inits : \E cid \in ChainIds : InitNetworkResolve(t, cid)
    \/ \E t \in inits :
          InitBalanceResolve(t, LedgerBalance(t.relayerWallet.address))
    \/ \E t \in inits : InitReject(t)
    \/ \E key \in LedgerKeys : updateUserPrivateKey(key)
    \/ RetryFires
    \/ \E q \in BagToSet(userQueries) :
          UserBalanceResolve(q, LedgerBalance(q.address))
    \/ \E q \in BagToSet(userQueries) : UserBalanceReject(q)
    \/ refreshBalances
    \/ \E b \in BagToSet(refreshes) : \E role \in b.pending :
          RefreshResolve(b, role, LedgerBalance(b.address[role]))
    \/ \E b \in BagToSet(refreshes) : \E role \in b.pending : RefreshReject(b, role)
    \/ FetchSettles

LedgerSpec == LedgerInit /\ [][LedgerNext]_vars

----------------------------------------------------------------------------
(* Properties of the committed state. *)

HasRelayer == walletState.relayerWallet # Null
HasConnection == walletState.provider # Null
HasCredential == Truthy(walletState.currentUserPrivateKey)

C2_ConfiguredImpliesPreconditions ==
    walletState.isConfigured => (HasRelayer /\ HasConnection /\ HasCredential)

C2_Witness ==
    /\ walletState.isConfigured
    /\ walletState.userWallet # Null
    /\ calls.providers = 2

\* C3: whenever there is no user account, userAddress and userBalance are
\* null as well.
C3_NoAccountNoAddressNoBalance ==
    walletState.userWallet = Null =>
        (walletState.userAddress = Null /\ walletState.userBalance = Null)

\* C4: the commit of a refresh batch is applied to the latest state: it
\* writes the balance of each role it carries a result for, and every other
\* field keeps the value it had just before the commit, whatever was
\* committed since the refresh started.
C4_RefreshMergesIntoLatest ==
    [][last'.op = "refreshCommit" =>
        \A f \in DOMAIN walletState :
            IF f = "userBalance" /\ "user" \in DOMAIN last'.results
            THEN walletState'[f] = Some(FormatEther(last'.results["user"]))
            ELSE IF f = "relayerBalance" /\ "relayer" \in DOMAIN last'.results
            THEN walletState'[f] = Some(FormatEther(last'.results["relayer"]))
            ELSE walletState'[f] = walletState[f]]_vars

\* a refresh that started without a user account has committed after a user
\* account and its balance were committed, while another refresh is in flight
C4_Witness ==
    /\ last.op = "refreshCommit"
    /\ DOMAIN last.results = {"relayer"}
    /\ walletState.userWallet # Null
    /\ walletState.userBalance # Null
    /\ refreshes # EmptyBag

\* C5, as stated: for every non-empty key, once the key waits for a retry
\* and a connection is present, the account derived from it is eventually
\* committed with isConfigured true.
Waiting(key) == \E i \in 1..Len(timers) : timers[i] = key

Committed(key) ==
    /\ walletState.currentUserPrivateKey = Some(key)
    /\ walletState.userWallet # Null
    /\ walletState.userAddress = Some(AddressOf(key))
    /\ walletState.isConfigured

C5_AnyKeyEventuallyCommitted ==
    \A key \in {k \in UserKeys : Text[k] # <<>>} :
        (Waiting(key) /\ HasConnection) ~> Committed(key)

\* C5, amended: a call with a non-blank key made while there is no
\* connection commits nothing and leaves the key waiting for a retry; and
\* for every key an account can be derived from, once the key waits and a
\* connection is present, the account derived from it is eventually
\* committed with isConfigured true, with no further call by the caller.
DeferredCall(key) ==
    ~IsBlankKey(key) /\ ~HasConnection /\ updateUserPrivateKey(key)

C5_DeferredThenCommitted ==
    /\ [][\A key \in UserKeys :
            DeferredCall(key) =>
                walletState' = walletState /\ timers' = Append(timers, key)]_vars
    /\ [][\A key \in UserKeys :
            (Waiting(key) /\ ~HasConnection) => Waiting(key)']_vars
    /\ \A key \in {k \in UserKeys : ~IsBlankKey(k) /\ ~WalletThrows(k)} :
            (Waiting(key) /\ HasConnection) ~> Committed(key)

\* the retry of a deferred call has committed the account of its key
C5_Witness ==
    /\ last.op = "retry"
    /\ Committed(KeyA)
    /\ calls.made = 1

\* C10: a call with an empty or blank key, made in any state, commits
\* currentUserPrivateKey = '', no user wallet, address or balance and
\* isConfigured = false, changes nothing else, and a second such call right
\* after it would leave the state as it is.
BlankKeys == {key \in UserKeys : IsBlankKey(key)}

ClearCall ==
    calls'.made = calls.made + 1 /\ \E key \in BlankKeys : updateUserPrivateKey(key)

UserFields ==
    {"currentUserPrivateKey", "userWallet", "userAddress", "userBalance",
     "isConfigured"}

C10_ClearIsUnconditionalAndIdempotent ==
    [][ClearCall =>
        /\ walletState'.currentUserPrivateKey = Some(KeyEmpty)
        /\ walletState'.userWallet = Null
        /\ walletState'.userAddress = Null
        /\ walletState'.userBalance = Null
        /\ walletState'.isConfigured = FALSE
        /\ \A f \in DOMAIN walletState \ UserFields :
                walletState'[f] = walletState[f]
        /\ UNCHANGED <<inits, timers, userQueries, refreshes, fetches>>
        /\ \A key \in BlankKeys : UpdateState(walletState', key) = walletState'
      ]_vars

\* the user was cleared while there was no connection and a retry was waiting
C10_Witness ==
    /\ walletState.currentUserPrivateKey = Some(KeyEmpty)
    /\ ~HasConnection
    /\ timers # <<>>

----------------------------------------------------------------------------
(* Properties of fetchMultiNetworkBalances. *)

NameSet == {NetworkNames[i] : i \in 1..Len(NetworkNames)}

CommittedBalances == Val(walletState.multiNetworkBalances)

\* C6: the mapping a fetch cycle commits holds, for every network whose
\* query failed, the entry {balance: '0.0000', currency}, and for every
\* other queried network the entry made of the balance its own query
\* answered; it holds nothing else.
C6_FailuresAreIsolated ==
    last.op = "fetchCommit" =>
        /\ walletState.multiNetworkBalances # Null
        /\ DOMAIN CommittedBalances = DOMAIN last.results
        /\ \A name \in DOMAIN last.results :
              IF last.results[name].ok
              THEN CommittedBalances[name] =
                      [balance |-> FormatEther(last.results[name].raw),
                       currency |-> Currency(name)]
              ELSE CommittedBalances[name] =
                      [balance |-> "0.0000", currency |-> Currency(name)]

\* a cycle has committed after one of its queries failed and another one
\* resolved
C6_Witness ==
    /\ last.op = "fetchCommit"
    /\ \E a, b \in DOMAIN last.results :
          /\ ~last.results[a].ok
          /\ last.results[b].ok
          /\ CommittedBalances[b].balance = "1.0"

\* A credential a network cannot be queried with, in the words of the claim:
\* absent, blank, a placeholder, or not 64 hexadecimal digits once an
\* optional 0x is stripped.
Unusable(credential) ==
    \/ credential = Null
    \/ LET text == Text[Val(credential)]
           digits == IF Len(text) >= 2 /\ SubSeq(text, 1, 2) = <<"0", "x">>
                     THEN SubSeq(text, 3, Len(text)) ELSE text
       IN \/ \A i \in 1..Len(text) : text[i] \in Whitespace
          \/ text \in {<<"0", "x", ".", ".", ".">>, <<"0", "x">>}
          \/ digits \notin [1..64 -> HexChars]

UnusableNetworks ==
    {name \in NameSet : Unusable(RelayerKeyOf(env, name))}

\* C7: a network whose credential is unusable is never queried: no cycle
\* holds a query, an answer or an entry for it, and the committed mapping
\* has no entry under its name.
C7_UnusableCredentialNeverQueried ==
    \A name \in UnusableNetworks :
        /\ \A c \in BagToSet(fetches) :
              /\ name \notin c.pending \cup c.hung
              /\ name \notin DOMAIN c.answers
              /\ name \notin DOMAIN c.balances
        /\ walletState.multiNetworkBalances # Null =>
              name \notin DOMAIN CommittedBalances

\* a cycle has committed for a catalog with usable and unusable credentials
C7_Witness ==
    /\ last.op = "fetchCommit"
    /\ UnusableNetworks # {}
    /\ DOMAIN CommittedBalances = NameSet \ UnusableNetworks
    /\ DOMAIN CommittedBalances # {}

Entries(name) ==
    {SuccessEntry(name, raw) : raw \in Balances} \cup {FallbackEntry(name)}

\* C8: when one query of a cycle never settles, the entries of the networks
\* of that cycle whose queries did settle are still eventually committed.
C8_HungQueryBlocksOnlyItsEntry ==
    \A name \in NameSet : \A entry \in Entries(name) :
        (\E c \in BagToSet(fetches) :
            /\ c.hung # {}
            /\ c.pending = {}
            /\ name \in DOMAIN c.balances
            /\ c.balances[name] = entry)
        ~> (/\ walletState.multiNetworkBalances # Null
            /\ name \in DOMAIN CommittedBalances
            /\ CommittedBalances[name] = entry)

\* The startup effect has run and everything it started has settled, the
\* initialization with success.
StartupSettled ==
    /\ mounted
    /\ inits = {}
    /\ fetches = EmptyBag
    /\ walletState.provider # Null

StartupCommitted ==
    /\ walletState.relayerAddress # Null
    /\ walletState.relayerBalance # Null
    /\ walletState.chainId # Null
    /\ walletState.error = Null
    /\ walletState.multiNetworkBalances # Null

\* C9, as stated: after a startup with only the primary network configured,
\* the relayer fields are set, there is no error, and multiNetworkBalances
\* has no entry.
C9_StartupLeavesNoEntries ==
    StartupSettled =>
        (StartupCommitted /\ Cardinality(DOMAIN CommittedBalances) = 0)

\* C9, amended: after such a startup the relayer fields are set, there is no
\* error, and multiNetworkBalances has an entry for each of the seven
\* networks of the catalog, every one of them queried with the primary
\* credential.
C9_StartupFetchesEveryNetwork ==
    StartupSettled =>
        (StartupCommitted /\ DOMAIN CommittedBalances = NameSet
                          /\ Cardinality(DOMAIN CommittedBalances) = 7)

C9_Witness ==
    /\ StartupSettled
    /\ StartupCommitted
    /\ \E name \in DOMAIN CommittedBalances : CommittedBalances[name].balance = "1.0"

----------------------------------------------------------------------------
(* Properties of initializeProvider and refreshBalances. *)

\* a reinitialize call that ends in the configuration guard or, when
\* new ethers.Wallet throws, in the catch block
FailedInitCall ==
    /\ initializeProvider
    /\ \/ ConfigMissing(env)
       \/ WalletThrows(Val(Envs[env].VITE_RELAYER_PRIVATE_KEY))

InitFails == FailedInitCall \/ \E t \in inits : InitReject(t)

\* C11: a failed initialize (configuration missing, account derivation
\* throwing, or the chain-id or balance query rejecting) sets error to a
\* message and leaves every other field of the wallet state as it was in the
\* latest state, a connection committed before included.
C11_FailedInitializeChangesOnlyError ==
    [][InitFails =>
        /\ walletState'.error # Null
        /\ \A f \in DOMAIN walletState \ {"error"} :
              walletState'[f] = walletState[f]]_vars

\* a reinitialize has failed after a connection, the relayer account, its
\* balance and a user account were committed: they are all still there
C11_Witness ==
    /\ walletState.error = Some("rpc error")
    /\ HasConnection
    /\ HasRelayer
    /\ walletState.relayerBalance # Null
    /\ walletState.chainId # Null
    /\ walletState.userWallet # Null
    /\ walletState.isConfigured

\* the networks of the catalog whose credential a query can be made with
UsableNetworks == NameSet \ UnusableNetworks

\* C12, amended: a refreshBalances call made while there is no connection
\* starts no user or relayer balance query and changes no field itself, but
\* it still starts a fetch cycle (committed at once when no network has a
\* usable credential); and the commit of a fetch cycle changes no field
\* other than multiNetworkBalances.
C12_RefreshWithoutConnectionOnlyFetches ==
    /\ [][(refreshBalances /\ ~HasConnection) =>
            /\ refreshes' = refreshes
            /\ userQueries' = userQueries
            /\ \A f \in DOMAIN walletState \ {"multiNetworkBalances"} :
                  walletState'[f] = walletState[f]
            /\ IF UsableNetworks = {}
               THEN /\ fetches' = fetches
                    /\ walletState'.multiNetworkBalances = Some(<<>>)
               ELSE /\ BagCardinality(fetches') = BagCardinality(fetches) + 1
                    /\ \E c \in BagToSet(fetches') :
                          c.pending = UsableNetworks /\ c.balances = <<>>
                    /\ walletState'.multiNetworkBalances =
                          walletState.multiNetworkBalances]_vars
    /\ [][last'.op = "fetchCommit" =>
            \A f \in DOMAIN walletState \ {"multiNetworkBalances"} :
                walletState'[f] = walletState[f]]_vars

\* a refresh was called without a connection: no batch of user or relayer
\* queries exists, and a fetch cycle is in flight
C12_Witness ==
    /\ last.op = "refresh"
    /\ ~HasConnection
    /\ refreshes = EmptyBag
    /\ fetches # EmptyBag
    /\ walletState.error # Null

\* C12, as stated: a refreshBalances call made while there is no connection starts no
\* balance query of any kind and leaves the wallet state as it is.
C12_RefreshWithoutConnectionIsNoOp ==
    [][(refreshBalances /\ ~HasConnection) =>
        /\ walletState' = walletState
        /\ refreshes' = refreshes
        /\ fetches' = fetches]_vars

----------------------------------------------------------------------------
(* Properties of updateUserPrivateKey. *)

\* a run of updateUserPrivateKey(key), by the caller or by a retry timer
RunsWith(key) ==
    \/ updateUserPrivateKey(key)
    \/ timers # <<>> /\ Head(timers) = key /\ RetryFires

\* C13: when updateUserPrivateKey(key) runs with a connection present and a
\* non-empty key from which no account can be derived, the run commits
\* error = a message, currentUserPrivateKey = key and no user wallet,
\* address or balance.
C13_DerivationFailureIsCommitted ==
    [][\A key \in UserKeys :
        (/\ RunsWith(key)
         /\ HasConnection
         /\ ~IsBlankKey(key)
         /\ WalletThrows(key)) =>
            /\ walletState'.error # Null
            /\ walletState'.currentUserPrivateKey = Some(key)
            /\ walletState'.userWallet = Null
            /\ walletState'.userAddress = Null
            /\ walletState'.userBalance = Null]_vars

\* the number of retries waiting for a key
Pending(key, queue) == Cardinality({i \in 1..Len(queue) : queue[i] = key})

\* a run without a connection leaves the wallet state as it is, starts no
\* query, and leaves exactly one more retry waiting for its key than the
\* retries not yet run
DefersOnce(key, before) ==
    /\ walletState' = walletState
    /\ userQueries' = userQueries
    /\ Pending(key, timers') = Pending(key, before) + 1
    /\ \A other \in UserKeys \ {key} :
          Pending(other, timers') = Pending(other, before)

Deferral(keys) ==
    \A key \in keys :
        /\ (updateUserPrivateKey(key) /\ ~HasConnection) =>
              DefersOnce(key, timers)
        /\ (timers # <<>> /\ Head(timers) = key /\ RetryFires /\ ~HasConnection) =>
              DefersOnce(key, Tail(timers))
        /\ (Waiting(key) /\ ~HasConnection) => Waiting(key)'

\* C14, as stated: while there is no connection, every run of
\* updateUserPrivateKey(key) with a non-empty key leaves the wallet state
\* unchanged and schedules exactly one retry with the same key, and a key
\* that waits for a retry keeps waiting while the connection is absent.
C14_NonEmptyKeyIsDeferred ==
    [][Deferral({key \in UserKeys : Text[key] # <<>>})]_vars

\* C14, amended: the same for every key that is neither empty nor made of
\* whitespace only.
C14_NonBlankKeyIsDeferred ==
    [][Deferral({key \in UserKeys : ~IsBlankKey(key)})]_vars

\* without a connection, the retry of the only call made has run and has
\* scheduled itself again
C14_Witness ==
    /\ last.op = "retry"
    /\ ~HasConnection
    /\ calls.made = 1
    /\ walletState.currentUserPrivateKey = Null
    /\ timers = <<KeyA>>

----------------------------------------------------------------------------
(* Properties of concurrent fetch cycles and of the commits of the other
   operations. *)

\* the entry the answer of a query stands for
ResultEntry(name, answer) ==
    IF answer.ok
    THEN [balance |-> FormatEther(answer.raw), currency |-> Currency(name)]
    ELSE [balance |-> "0.0000", currency |-> Currency(name)]

\* the step is the commit of cycle c: its last query settles in this step,
\* the cycle is gone afterwards, and the answers committed are its own
CommitOf(c) ==
    /\ c.hung = {}
    /\ Cardinality(c.pending) = 1
    /\ BagCardinality(fetches') = BagCardinality(fetches) - 1
    /\ CopiesIn(c, fetches') = CopiesIn(c, fetches) - 1
    /\ DOMAIN c.answers = UsableNetworks \ c.pending
    /\ \A name \in DOMAIN c.answers : last'.results[name] = c.answers[name]

\* C15: multiNetworkBalances changes only in the step in which the last
\* query of a fetch cycle settles; that step ends the cycle, so it commits
\* once; and the mapping committed is made of the answers of that one cycle,
\* one entry for every network it queried, with nothing kept of the mapping
\* committed before and nothing taken from a cycle still in flight.
C15_CycleCommitsOnceAndWhole ==
    [][/\ walletState'.multiNetworkBalances # walletState.multiNetworkBalances
            => \/ last'.op = "fetchCommit"
               \/ /\ UsableNetworks = {}
                  /\ walletState'.multiNetworkBalances = Some(<<>>)
       /\ last'.op = "fetchCommit" =>
            /\ \E c \in BagToSet(fetches) : CommitOf(c)
            /\ DOMAIN last'.results = UsableNetworks
            /\ walletState'.multiNetworkBalances =
                 Some([name \in UsableNetworks |->
                          ResultEntry(name, last'.results[name])])]_vars

\* a cycle has committed while another cycle, which holds a different
\* answer for one of the networks, is still in flight, and a mapping with a
\* different entry had been committed before by a third
C15_Witness ==
    /\ last.op = "fetchCommit"
    /\ calls.made = 2
    /\ \E c \in BagToSet(fetches) : \E name \in DOMAIN c.answers :
          c.answers[name] # last.results[name]
    /\ \E name \in DOMAIN last.results : ~last.results[name].ok

ConnectionFields == {"provider", "relayerWallet", "relayerAddress", "chainId"}

\* what the commit of the successful initialization t writes
WritesConnection(t) ==
    /\ walletState'.provider = Some(t.provider)
    /\ walletState'.relayerWallet = Some(t.relayerWallet)
    /\ walletState'.relayerAddress = Some(t.relayerWallet.address)
    /\ walletState'.chainId = t.chainId
    /\ walletState'.chainId # Null
    /\ walletState'.relayerBalance \in {Some(FormatEther(raw)) : raw \in Balances}
    /\ walletState'.error = Null
    /\ \A f \in DOMAIN walletState \
                  (ConnectionFields \cup {"relayerBalance", "error"}) :
          walletState'[f] = walletState[f]

\* C16: provider, relayerWallet, relayerAddress and chainId change only in
\* the step in which an initialization that got both its answers commits;
\* that step writes the four of them together with relayerBalance and
\* error = null and nothing else; no step of updateUserPrivateKey,
\* refreshBalances or fetchMultiNetworkBalances changes any of the four.
C16_ConnectionWrittenOnlyByInitialize ==
    [][/\ (\E f \in ConnectionFields : walletState'[f] # walletState[f]) =>
            \E t \in inits :
                /\ t.pc = "getBalance"
                /\ inits' = inits \ {t}
                /\ WritesConnection(t)
       /\ \A t \in inits :
            (\E raw \in Balances : InitBalanceResolve(t, raw)) =>
                WritesConnection(t)]_vars

\* the connection of a reinitialize is the one committed, next to a user
\* account, while a refresh batch and a fetch cycle are in flight
C16_Witness ==
    /\ HasConnection
    /\ Val(walletState.provider).id = 2
    /\ Val(walletState.relayerWallet).provider.id = 2
    /\ walletState.userWallet # Null
    /\ refreshes # EmptyBag
    /\ fetches # EmptyBag

RoleField(role) == IF role = "user" THEN "userBalance" ELSE "relayerBalance"

\* the roles an account exists for
ExistingRoles ==
    {role \in {"user", "relayer"} :
        \/ role = "user" /\ walletState.userWallet # Null
        \/ role = "relayer" /\ walletState.relayerWallet # Null}

\* the last query of batch b settles in this step
LastSettles(b) ==
    /\ Cardinality(b.pending) = 1
    /\ CopiesIn(b, refreshes') = CopiesIn(b, refreshes) - 1
    /\ BagCardinality(refreshes') = BagCardinality(refreshes) - 1

\* C17: a refreshBalances call made with a connection queries the balance
\* of each role an account exists for, and of no other; and once the
\* queries of a batch have settled, the result of every one of them that
\* resolved is in the field of its role, and the field of a role the batch
\* did not query is as it was.
C17_ResolvedResultsAreMerged ==
    [][/\ (refreshBalances /\ HasConnection) =>
            IF ExistingRoles = {}
            THEN refreshes' = refreshes
            ELSE \E b \in BagToSet(refreshes') :
                    /\ b.pending = ExistingRoles
                    /\ b.results = <<>>
                    /\ CopiesIn(b, refreshes') = CopiesIn(b, refreshes) + 1
       /\ \A b \in BagToSet(refreshes) :
            LastSettles(b) =>
                /\ \A role \in DOMAIN b.results :
                      walletState'[RoleField(role)] =
                          Some(FormatEther(b.results[role]))
                /\ \A role \in {"user", "relayer"} \
                                  (DOMAIN b.results \cup b.pending) :
                      walletState'[RoleField(role)] =
                          walletState[RoleField(role)]]_vars

----------------------------------------------------------------------------
(* Properties of the user account across calls. *)

\* no initialization, retry or user balance query is left
UserSettled == inits = {} /\ timers = <<>> /\ userQueries = EmptyBag

\* the argument of the latest call of the caller
LatestArgument == CallerScript[calls.made]

\* C18: once every retry and query has settled, currentUserPrivateKey and
\* userWallet are those of the latest call of the caller: '' and no wallet
\* after a call with an empty key, the key and the wallet derived from it
\* after a call with a key.
C18_LatestCallWins ==
    (UserSettled /\ calls.made > 0) =>
        IF IsBlankKey(LatestArgument)
        THEN /\ walletState.currentUserPrivateKey = Some(KeyEmpty)
             /\ walletState.userWallet = Null
        ELSE /\ walletState.currentUserPrivateKey = Some(LatestArgument)
             /\ walletState.userWallet # Null
             /\ Val(walletState.userWallet).key = LatestArgument

\* C19: a userBalance that is not null is the balance of the address stored
\* in userAddress.
C19_BalanceBelongsToAddress ==
    walletState.userBalance # Null =>
        /\ walletState.userAddress # Null
        /\ walletState.userBalance =
              Some(FormatEther(LedgerBalance(Val(walletState.userAddress))))

\* the wallet, when there is one, was made with the provider now committed
BoundToConnection(wallet) ==
    wallet # Null =>
        /\ HasConnection
        /\ Val(wallet).provider = Val(walletState.provider)

\* C20: the relayer wallet is present exactly when the provider is, and the
\* relayer wallet and the user wallet are bound to the provider stored in
\* the wallet state.
C20_AccountsBoundToConnection ==
    /\ HasRelayer <=> HasConnection
    /\ BoundToConnection(walletState.relayerWallet)
    /\ BoundToConnection(walletState.userWallet)

====
